---- MODULE Spec2Model ----
(***************************************************************************)
(* compass/streams.py: registration of streams fragments on a step and the *)
(* generation of a streams file from them (read, unify, reconcile against  *)
(* the defaults, prune, write).                                            *)
(*                                                                         *)
(* An XML element is a record [id, tag, attrib, children].  attrib is the  *)
(* ordered attribute mapping, a sequence of <<key, value>> pairs; children *)
(* is the ordered child list.  id is the identity of the element object:   *)
(* <<d>> \o path for the element at child path `path` of the d-th parsed   *)
(* document, with a 0 appended by every deepcopy.                          *)
(***************************************************************************)
EXTENDS Naturals, Sequences, FiniteSets, TLC

VARIABLES step, calls, files, last

vars == <<step, calls, files, last>>

\* Python's None
None == "<None>"

-----------------------------------------------------------------------------
(* lxml elements *)

Element(tag, attrib, children) ==
    [id |-> <<>>, tag |-> tag, attrib |-> attrib, children |-> children]

\* key in element.attrib
HasAttr(attrib, key) == \E i \in DOMAIN attrib : attrib[i][1] = key

\* element.attrib[key], for a key that is present
GetAttr(attrib, key) ==
    attrib[CHOOSE i \in DOMAIN attrib : attrib[i][1] = key][2]

\* SetAttr as it would be if a value already set were kept
SetAttrKeepFirst(attrib, key, value) ==
    IF HasAttr(attrib, key) THEN attrib ELSE Append(attrib, <<key, value>>)

\* element.attrib[key] = value: an existing key keeps its place, a new one
\* goes last
SetAttr(attrib, key, value) ==
    IF HasAttr(attrib, key)
    THEN [i \in DOMAIN attrib |->
            IF attrib[i][1] = key THEN <<key, value>> ELSE attrib[i]]
    ELSE Append(attrib, <<key, value>>)

HasName(e) == HasAttr(e.attrib, "name")
NameOf(e) == GetAttr(e.attrib, "name")

\* deepcopy as it would be if the element itself were appended
Shared(e) == e

RECURSIVE deepcopy(_)
\* copy.deepcopy(element): the same structure made of new element objects
deepcopy(e) ==
    [e EXCEPT !.id = Append(e.id, 0),
              !.children = [i \in DOMAIN e.children |-> deepcopy(e.children[i])]]

RECURSIVE Identify(_, _)
\* the element objects a parse creates: each gets the identity `id`
\* extended by its child path
Identify(e, id) ==
    [e EXCEPT !.id = id,
              !.children = [i \in DOMAIN e.children |->
                               Identify(e.children[i], Append(id, i))]]

-----------------------------------------------------------------------------
(* The package's streams files and the defaults of the two modes *)

Var(name) == Element("var", << <<"name", name>> >>, <<>>)
VarPk(name, pk) == Element("var", << <<"name", name>>, <<"packages", pk>> >>, <<>>)
VarArray(name) == Element("var_array", << <<"name", name>> >>, <<>>)
VarStruct(name) == Element("var_struct", << <<"name", name>> >>, <<>>)
StreamRef(name) == Element("stream", << <<"name", name>> >>, <<>>)
Streams(children) == Element("streams", <<>>, children)

Package == "compass.ocean.tests.hurricane"

StreamsFiles ==
    {"streams.base", "streams.extra", "streams.bare", "streams.imm",
     "streams.arr", "streams.loose", "streams.template"}

\* resources.read_text(package, streams_filename), as the document it holds
read_text(streams_filename) ==
    CASE streams_filename = "streams.base" ->
           Streams(<< Element("stream",
                              << <<"name", "A">>, <<"type", "output">> >>,
                              << Var("x"), VarPk("y", "p1") >>) >>)
      [] streams_filename = "streams.extra" ->
           Streams(<< Element("stream",
                              << <<"name", "A">>, <<"type", "input">>,
                                 <<"filename_template", "a.nc">> >>,
                              << VarPk("y", "p2"), VarArray("z"),
                                 StreamRef("A") >>),
                      Element("immutable_stream",
                              << <<"name", "B">>,
                                 <<"filename_template", "b.nc">> >>, <<>>) >>)
      [] streams_filename = "streams.bare" ->
           Streams(<< Element("stream", << <<"name", "A">> >>, <<>>),
                      Element("stream", << <<"name", "C">> >>,
                              << VarStruct("s"), Var("w"), StreamRef("A") >>) >>)
      [] streams_filename = "streams.imm" ->
           Streams(<< Element("immutable_stream", << <<"name", "A">> >>, <<>>) >>)
      [] streams_filename = "streams.arr" ->
           Streams(<< Element("stream", << <<"name", "A">> >>,
                              << VarArray("x") >>),
                      Element("stream", << <<"name", "C">> >>,
                              << VarArray("w") >>) >>)
      [] streams_filename = "streams.loose" ->
           Streams(<< Element("stream", << <<"type", "none">> >>, <<>>),
                      Element("stream", << <<"name", "C">> >>,
                              << Element("var", << <<"packages", "p1">> >>, <<>>),
                                 Var("w") >>) >>)
      [] streams_filename = "streams.template" ->
           Streams(<< Element("stream",
                              << <<"name", "A">>,
                                 <<"output_interval", "{{ interval }}">> >>,
                              <<>>) >>)

Modes == {"init", "forward"}

\* the document at config.get('streams', mode)
DefaultsFile(mode) ==
    IF mode = "forward"
    THEN Streams(<< Element("immutable_stream",
                            << <<"name", "M">>,
                               <<"filename_template", "mesh.nc">> >>, <<>>),
                    Element("stream",
                            << <<"name", "A">>, <<"type", "input">>,
                               <<"output_interval", "none">> >>,
                            << Var("u"), Var("v"), VarPk("x", "p0") >>),
                    Element("immutable_stream",
                            << <<"name", "B">>,
                               <<"filename_template", "old.nc">> >>, <<>>),
                    Element("stream", << <<"name", "D">> >>, << Var("d") >>),
                    Element("stream", << <<"name", "F">> >>, <<>>) >>)
    ELSE Streams(<< Element("immutable_stream",
                            << <<"name", "A">>,
                               <<"filename_template", "init.nc">> >>, <<>>),
                    Element("stream", << <<"name", "C">> >>,
                            << Var("q"), Var("w") >>),
                    Element("stream", << <<"name", "E">> >>,
                            << StreamRef("E"), Var("e") >>),
                    Element("stream", << <<"name", "G">> >>, <<>>) >>)

\* the template_replacements a caller passes with a streams file: none, or
\* those of the one file that is a template
Replacements(streams) ==
    IF streams = "streams.template"
    THEN {None, "interval=0001-00-00"}
    ELSE {None}

\* Template(text).render(**replacements) on one attribute value
RenderValue(value, replacements) ==
    IF value = "{{ interval }}" /\ replacements = "interval=0001-00-00"
    THEN "0001-00-00"
    ELSE value

RECURSIVE Render(_, _)
Render(e, replacements) ==
    [e EXCEPT !.attrib = [i \in DOMAIN e.attrib |->
                            <<e.attrib[i][1],
                              RenderValue(e.attrib[i][2], replacements)>>],
              !.children = [i \in DOMAIN e.children |->
                               Render(e.children[i], replacements)]]

-----------------------------------------------------------------------------
(* Results of the merging functions: err = "" is a normal return *)

Ok(v) == [err |-> "", name |-> "", v |-> v]
Raise(err, name) == [err |-> err, name |-> name, v |-> <<>>]

KeyError == "KeyError"
InconsistentTags == "ValueError: inconsistent tags"
NoStreams == "ValueError: no streams files"

-----------------------------------------------------------------------------
(* Iteration over an element's children while the body removes the current  *)
(* child.  lxml's child iterator fetches the next sibling before it hands   *)
(* out the current child, so after a removal the iteration goes on with the *)
(* element that has moved into the removed child's place.                   *)

\* ElementIteratorNext as it is for a Python list, where the iteration goes
\* on by position
ListIteratorNext(i, removed) == i + 1

\* the position the iteration goes on with after the child at position i
ElementIteratorNext(i, removed) == IF removed THEN i ELSE i + 1

RemoveAt(s, i) == SubSeq(s, 1, i - 1) \o SubSeq(s, i + 1, Len(s))

RECURSIVE RemoveGrandchildren(_, _)
\* for grandchild in child: child.remove(grandchild)
RemoveGrandchildren(children, i) ==
    IF i > Len(children)
    THEN children
    ELSE RemoveGrandchildren(RemoveAt(children, i), ElementIteratorNext(i, TRUE))

RECURSIVE CopyAttrs(_, _, _)
\* for attr, value in new_child.attrib.items(): child.attrib[attr] = value
CopyAttrs(new_attrib, i, attrib) ==
    IF i > Len(new_attrib)
    THEN attrib
    ELSE CopyAttrs(new_attrib, i + 1,
                   SetAttr(attrib, new_attrib[i][1], new_attrib[i][2]))

-----------------------------------------------------------------------------------------------------------------------------------------------------
(* _update_element(new_child, elements): `elements` is the child list of    *)
(* the element updated in place; the result holds the child list after.     *)

Found(r, found) == [err |-> r.err, name |-> r.name, v |-> r.v, found |-> found]

RECURSIVE _update_element(_, _)
RECURSIVE UpdateElementChildren(_, _, _, _)
RECURSIVE UpdateElementGrandchildren(_, _, _)

\* after one _update_element(new_grandchild, child) has returned r
UpdateElementGrandchild(new_children, k, r) ==
    IF r.err # "" THEN r
    ELSE UpdateElementGrandchildren(new_children, k + 1, r.v)

\* for new_grandchild in new_child: _update_element(new_grandchild, child)
UpdateElementGrandchildren(new_children, k, children) ==
    IF k > Len(new_children)
    THEN Ok(children)
    ELSE UpdateElementGrandchild(new_children, k,
                                 _update_element(new_children[k], children))

\* the matching child elements[i] with the attributes copied and the
\* grandchildren updated (g), and on to the next sibling
UpdateElementChild(new_child, elements, i, g) ==
    IF g.err # "" THEN Found(g, TRUE)
    ELSE UpdateElementChildren(
             new_child,
             [elements EXCEPT ![i] =
                 [@ EXCEPT !.attrib = CopyAttrs(new_child.attrib, 1, @),
                           !.children = g.v]],
             i + 1, TRUE)

\* for child in elements: ... (no break: every sibling is looked at)
UpdateElementChildren(new_child, elements, i, found) ==
    IF i > Len(elements)
    THEN Found(Ok(elements), found)
    ELSE IF ~HasName(elements[i])
    THEN Found(Raise(KeyError, "name"), found)
    ELSE IF NameOf(elements[i]) # NameOf(new_child)
    THEN UpdateElementChildren(new_child, elements, i + 1, found)
    ELSE IF elements[i].tag # new_child.tag
    THEN Found(Raise(InconsistentTags, NameOf(new_child)), TRUE)
    ELSE UpdateElementChild(
             new_child, elements, i,
             UpdateElementGrandchildren(new_child.children, 1,
                                        elements[i].children))

\* UpdateElementAppend as it would be without the test of `found`
UpdateElementAppendAlways(new_child, r) ==
    IF r.err # "" THEN Raise(r.err, r.name)
    ELSE Ok(Append(r.v, deepcopy(new_child)))

\* if not found: elements.append(deepcopy(new_child))
UpdateElementAppend(new_child, r) ==
    IF r.err # "" THEN Raise(r.err, r.name)
    ELSE IF ~r.found THEN Ok(Append(r.v, deepcopy(new_child)))
    ELSE Ok(r.v)

_update_element(new_child, elements) ==
    IF ~HasName(new_child)
    THEN Ok(elements)
    ELSE UpdateElementAppend(
             new_child, UpdateElementChildren(new_child, elements, 1, FALSE))

RECURSIVE UpdateTreeStreams(_, _, _)

UpdateTreeStream(new_streams, k, r) ==
    IF r.err # "" THEN r ELSE UpdateTreeStreams(new_streams, k + 1, r.v)

\* for new_stream in new_streams: _update_element(new_stream, streams)
UpdateTreeStreams(new_streams, k, streams) ==
    IF k > Len(new_streams)
    THEN Ok(streams)
    ELSE UpdateTreeStream(new_streams, k,
                          _update_element(new_streams[k], streams))

\* the tree with the children of its 'streams' element updated
UpdatedTree(tree, r) ==
    IF r.err # "" THEN r ELSE Ok(<<[tree[1] EXCEPT !.children = r.v]>>)

\* _update_tree(tree, new_tree); a tree is <<>> (None) or <<root>>, and the
\* root of every document here is its 'streams' element
_update_tree(tree, new_tree) ==
    IF tree = <<>>
    THEN Ok(<<new_tree>>)
    ELSE UpdatedTree(tree, UpdateTreeStreams(new_tree.children, 1,
                                             tree[1].children))

\* etree.fromstring(text) of the k-th streams file read: the text of the
\* file, rendered as a template when there are replacements
fromstring(entry, k) ==
    Identify(IF entry.replacements = None
             THEN read_text(entry.streams)
             ELSE Render(read_text(entry.streams), entry.replacements),
             <<k>>)

\* _read(package, streams_filename, tree, replacements), as the k-th read
_read(entry, k, tree) == _update_tree(tree, fromstring(entry, k))

RECURSIVE ReadAll(_, _, _)

ReadNext(entries, k, r) ==
    IF r.err # "" THEN r ELSE ReadAll(entries, k + 1, r.v)

\* for entry in step['streams_data'][out_name]: tree = _read(..., tree=tree)
ReadAll(entries, k, tree) ==
    IF k > Len(entries)
    THEN Ok(tree)
    ELSE ReadNext(entries, k, _read(entries[k], k, tree))

-----------------------------------------------------------------------------
(* _update_defaults(new_child, defaults) *)

RECURSIVE _update_defaults(_, _)
RECURSIVE UpdateDefaultsChildren(_, _, _, _)
RECURSIVE UpdateDefaultsGrandchildren(_, _, _)

UpdateDefaultsGrandchild(new_children, k, r) ==
    IF r.err # "" THEN r
    ELSE UpdateDefaultsGrandchildren(new_children, k + 1, r.v)

\* for new_grandchild in new_child: _update_defaults(new_grandchild, child)
UpdateDefaultsGrandchildren(new_children, k, children) ==
    IF k > Len(new_children)
    THEN Ok(children)
    ELSE UpdateDefaultsGrandchild(new_children, k,
                                  _update_defaults(new_children[k], children))

\* WithoutDefaultGrandchildren as it would be if nothing were removed
WithDefaultGrandchildren(new_child, child) == child.children

\* if len(new_child) > 0: the default grandchildren are removed
WithoutDefaultGrandchildren(new_child, child) ==
    IF Len(new_child.children) > 0
    THEN RemoveGrandchildren(child.children, 1)
    ELSE child.children

UpdateDefaultsChild(new_child, defaults, i, g) ==
    IF g.err # "" THEN Found(g, TRUE)
    ELSE UpdateDefaultsChildren(
             new_child,
             [defaults EXCEPT ![i] =
                 [@ EXCEPT !.attrib = CopyAttrs(new_child.attrib, 1, @),
                           !.children = g.v]],
             i + 1, TRUE)

\* for child in defaults: ...
UpdateDefaultsChildren(new_child, defaults, i, found) ==
    IF i > Len(defaults)
    THEN Found(Ok(defaults), found)
    ELSE IF ~HasName(defaults[i])
    THEN Found(Raise(KeyError, "name"), found)
    ELSE IF NameOf(defaults[i]) # NameOf(new_child)
    THEN UpdateDefaultsChildren(new_child, defaults, i + 1, found)
    ELSE IF defaults[i].tag # new_child.tag
    THEN Found(Raise(InconsistentTags, NameOf(new_child)), TRUE)
    ELSE UpdateDefaultsChild(
             new_child, defaults, i,
             UpdateDefaultsGrandchildren(
                 new_child.children, 1,
                 WithoutDefaultGrandchildren(new_child, defaults[i])))

\* if not found: defaults.append(deepcopy(new_child))
UpdateDefaultsAppend(new_child, r) ==
    IF r.err # "" THEN Raise(r.err, r.name)
    ELSE IF ~r.found THEN Ok(Append(r.v, deepcopy(new_child)))
    ELSE Ok(r.v)

_update_defaults(new_child, defaults) ==
    IF ~HasName(new_child)
    THEN Ok(defaults)
    ELSE UpdateDefaultsAppend(
             new_child, UpdateDefaultsChildren(new_child, defaults, 1, FALSE))

RECURSIVE Reconcile(_, _, _)

ReconcileNext(streams, k, r) ==
    IF r.err # "" THEN r ELSE Reconcile(streams, k + 1, r.v)

\* for stream in streams: _update_defaults(stream, defaults)
Reconcile(streams, k, defaults) ==
    IF k > Len(streams)
    THEN Ok(defaults)
    ELSE ReconcileNext(streams, k, _update_defaults(streams[k], defaults))

RECURSIVE Requested(_, _, _)
\* the inner loop of the pruning: "found", "not found", or the KeyError of
\* attrib['name'] on an element without a name
Requested(streams, j, default) ==
    IF j > Len(streams) THEN "not found"
    ELSE IF ~HasName(streams[j]) \/ ~HasName(default) THEN KeyError
    ELSE IF NameOf(streams[j]) = NameOf(default) THEN "found"
    ELSE Requested(streams, j + 1, default)

RECURSIVE Prune(_, _, _)

PruneDefault(defaults, i, streams, found) ==
    IF found = KeyError THEN Raise(KeyError, "name")
    ELSE IF found = "found"
    THEN Prune(defaults, ElementIteratorNext(i, FALSE), streams)
    ELSE Prune(RemoveAt(defaults, i), ElementIteratorNext(i, TRUE), streams)

\* for default in defaults: ... if not found: defaults.remove(default)
Prune(defaults, i, streams) ==
    IF i > Len(defaults)
    THEN Ok(defaults)
    ELSE PruneDefault(defaults, i, streams,
                      Requested(streams, 1, defaults[i]))

-----------------------------------------------------------------------------
(* _write(streams, out_filename): the text written, one tuple per           *)
(* stream_file.write call: the format string followed by its arguments.     *)

\* element.findall(tag): the direct children with that tag, in document order
findall(e, tag) ==
    LET Match(c) == c.tag = tag IN SelectSeq(e.children, Match)

Written(lines) == [err |-> "", name |-> "", lines |-> lines]
Broken(lines) == [err |-> KeyError, name |-> "name", lines |-> lines]

RECURSIVE WriteAttrs(_, _, _, _)
\* for attr, val in stream.attrib.items(): if attr.strip() != 'name': write
WriteAttrs(attrib, i, format, lines) ==
    IF i > Len(attrib) THEN lines
    ELSE WriteAttrs(attrib, i + 1, format,
                    IF attrib[i][1] # "name"
                    THEN Append(lines, <<format, attrib[i][1], attrib[i][2]>>)
                    ELSE lines)

RECURSIVE WriteImmutable(_, _, _)
\* for stream in streams.findall('immutable_stream'): ...
WriteImmutable(streams, i, lines) ==
    IF i > Len(streams) THEN Written(lines)
    ELSE IF ~HasName(streams[i]) THEN Broken(lines)
    ELSE WriteImmutable(streams, i + 1,
             Append(WriteAttrs(streams[i].attrib, 1,
                               "\n                  {}=\"{}\"",
                               lines \o << <<"\n">>,
                                           <<"<immutable_stream name=\"{}\"",
                                             NameOf(streams[i])>> >>),
                    <<"/>\n">>))

\* ContentTags as it would be with the stream references written last
ContentTagsStreamLast == <<"var_struct", "var_array", "var", "stream">>

\* for tag in ['stream', 'var_struct', 'var_array', 'var']
ContentTags == <<"stream", "var_struct", "var_array", "var">>

\* the entry written for a child
Entry(tag, child) ==
    IF HasAttr(child.attrib, "packages")
    THEN <<"    <{} name=\"{}\" packages=\"{}\"/>\n",
           tag, NameOf(child), GetAttr(child.attrib, "packages")>>
    ELSE <<"    <{} name=\"{}\"/>\n", tag, NameOf(child)>>

RECURSIVE WriteChildren(_, _, _, _, _)
\* for child in stream.findall(tag): ...
WriteChildren(children, i, tag, stream_name, lines) ==
    IF i > Len(children) THEN Written(lines)
    ELSE IF ~HasName(children[i]) THEN Broken(lines)
    ELSE IF tag = "stream" /\ NameOf(children[i]) = stream_name
    THEN WriteChildren(children, i + 1, tag, stream_name, lines)
    ELSE WriteChildren(children, i + 1, tag, stream_name,
                       Append(lines, Entry(tag, children[i])))

RECURSIVE WriteContents(_, _, _)

WriteNextTag(stream, t, w) ==
    IF w.err # "" THEN w ELSE WriteContents(stream, t + 1, w.lines)

\* for tag in [...]: for child in stream.findall(tag): ...
WriteContents(stream, t, lines) ==
    IF t > Len(ContentTags) THEN Written(lines)
    ELSE WriteNextTag(stream, t,
                      WriteChildren(findall(stream, ContentTags[t]), 1,
                                    ContentTags[t], NameOf(stream), lines))

RECURSIVE WriteMutable(_, _, _)

WriteNextStream(streams, i, w) ==
    IF w.err # "" THEN w
    ELSE WriteMutable(streams, i + 1, Append(w.lines, <<"</stream>\n">>))

\* for stream in streams.findall('stream'): ...
WriteMutable(streams, i, lines) ==
    IF i > Len(streams) THEN Written(lines)
    ELSE IF ~HasName(streams[i]) THEN Broken(lines)
    ELSE WriteNextStream(
             streams, i,
             WriteContents(
                 streams[i], 1,
                 Append(WriteAttrs(streams[i].attrib, 1,
                                   "\n        {}=\"{}\"",
                                   lines \o << <<"\n">>,
                                               <<"<stream name=\"{}\"",
                                                 NameOf(streams[i])>> >>),
                        <<">\n\n">>)))

WriteEnd(w) ==
    IF w.err # "" THEN w
    ELSE Written(w.lines \o << <<"\n">>, <<"</streams>\n">> >>)

WriteStreams(streams, w) ==
    IF w.err # "" THEN w
    ELSE WriteEnd(WriteMutable(findall(streams, "stream"), 1, w.lines))

\* the text in the file when _write returns or raises (the file is opened
\* with 'w', so what it held before is gone either way)
_write(streams) ==
    WriteStreams(streams,
                 WriteImmutable(findall(streams, "immutable_stream"), 1,
                                << <<"<streams>\n">> >>))

-----------------------------------------------------------------------------
(* The step and the two public functions *)

\* 'streams.{}'.format(step['core'])
DefaultOutName(core) == "streams." \o core

OutName(s, out_name) ==
    IF out_name = None THEN DefaultOutName(s.core) ELSE out_name

\* the out_name arguments callers pass
OutNames == {None, "streams.other"}

\* what a call of generate_streams did: the error it raised (err = "" when
\* it returned), the entries it read, the accumulated tree and the defaults
\* tree as far as it got (<<>>: not built), and the text it left in the file
Outcome(out_name, mode, r, entries, tree, defaults, wrote, lines) ==
    [called |-> TRUE, out_name |-> out_name, mode |-> mode,
     err |-> r.err, name |-> r.name, entries |-> entries,
     tree |-> tree, defaults |-> defaults, wrote |-> wrote, lines |-> lines]

NotCalled ==
    [called |-> FALSE, out_name |-> "", mode |-> "",
     err |-> "", name |-> "", entries |-> <<>>,
     tree |-> <<>>, defaults |-> <<>>, wrote |-> FALSE, lines |-> <<>>]

\* _write(defaults_tree, out_filename)
GenerateWritten(out_name, mode, entries, tree, final, w) ==
    Outcome(out_name, mode, w, entries, tree, <<final>>, TRUE, w.lines)

GenerateWrite(out_name, mode, entries, tree, final) ==
    GenerateWritten(out_name, mode, entries, tree, final, _write(final))

GeneratePruned(out_name, mode, entries, tree, defaults_tree, pruned) ==
    IF pruned.err # ""
    THEN Outcome(out_name, mode, pruned, entries, tree, <<>>, FALSE, <<>>)
    ELSE GenerateWrite(out_name, mode, entries, tree,
                       [defaults_tree EXCEPT !.children = pruned.v])

GenerateUpdated(out_name, mode, entries, tree, defaults_tree, updated) ==
    IF updated.err # ""
    THEN Outcome(out_name, mode, updated, entries, tree, <<>>, FALSE, <<>>)
    ELSE \* remove any streams that aren't requested
         GeneratePruned(out_name, mode, entries, tree, defaults_tree,
                        Prune(updated.v, 1, tree[1].children))

\* defaults_tree = etree.parse(defaults_filename), then
\* for stream in streams: _update_defaults(stream, defaults)
GenerateDefaults(out_name, mode, entries, tree, defaults_tree) ==
    GenerateUpdated(out_name, mode, entries, tree, defaults_tree,
                    Reconcile(tree[1].children, 1, defaults_tree.children))

GenerateRead(out_name, mode, entries, read) ==
    IF read.err # ""
    THEN Outcome(out_name, mode, read, entries, <<>>, <<>>, FALSE, <<>>)
    ELSE GenerateDefaults(out_name, mode, entries, read.v,
                          Identify(DefaultsFile(mode), <<0>>))

\* generate_streams(step, config, out_name, mode): what the call does
Generate(s, out_name, mode) ==
    IF "streams_data" \notin DOMAIN s
    THEN Outcome(out_name, mode, Raise(KeyError, "streams_data"),
                 <<>>, <<>>, <<>>, FALSE, <<>>)
    ELSE IF out_name \notin DOMAIN s.streams_data
    THEN Outcome(out_name, mode, Raise(NoStreams, out_name),
                 <<>>, <<>>, <<>>, FALSE, <<>>)
    ELSE GenerateRead(out_name, mode, s.streams_data[out_name],
                      ReadAll(s.streams_data[out_name], 1, <<>>))

\* the calls of add_streams_file a run makes
MaxCalls == 2

\* Registered as it would be if the entry were put first in the list
RegisteredFirst(s, out_name, entry) ==
    LET data == IF "streams_data" \in DOMAIN s THEN s.streams_data ELSE <<>>
    IN  [k \in DOMAIN s \cup {"streams_data"} |->
           IF k = "streams_data"
           THEN [o \in DOMAIN data \cup {out_name} |->
                   IF o \in DOMAIN data THEN
                       IF o = out_name THEN <<entry>> \o data[o]
                       ELSE data[o]
                   ELSE <<entry>>]
           ELSE s[k]]

\* step['streams_data'][out_name].append(entry), the dictionary and the
\* list made first where missing
Registered(s, out_name, entry) ==
    LET data == IF "streams_data" \in DOMAIN s THEN s.streams_data ELSE <<>>
    IN  [k \in DOMAIN s \cup {"streams_data"} |->
           IF k = "streams_data"
           THEN [o \in DOMAIN data \cup {out_name} |->
                   IF o \in DOMAIN data THEN
                       IF o = out_name THEN Append(data[o], entry)
                       ELSE data[o]
                   ELSE <<entry>>]
           ELSE s[k]]

add_streams_file(streams, template_replacements, out_name) ==
    /\ Len(calls) < MaxCalls
    /\ step' = Registered(step, OutName(step, out_name),
                          [package |-> Package, streams |-> streams,
                           replacements |-> template_replacements])
    /\ calls' = Append(calls, [out_name |-> out_name, streams |-> streams,
                               replacements |-> template_replacements])
    /\ UNCHANGED <<files, last>>

\* WorkDir as it would be if the file were opened before the merging
WorkDirOpenedFirst(fs, s, g) ==
    [f \in DOMAIN fs \cup {s.work_dir \o "/" \o g.out_name} |->
       IF f = s.work_dir \o "/" \o g.out_name THEN g.lines ELSE fs[f]]

\* the work directory after the call
WorkDir(fs, s, g) ==
    IF g.wrote
    THEN [f \in DOMAIN fs \cup {s.work_dir \o "/" \o g.out_name} |->
            IF f = s.work_dir \o "/" \o g.out_name THEN g.lines ELSE fs[f]]
    ELSE fs

generate_streams(out_name, mode) ==
    \E g \in {Generate(step, OutName(step, out_name), mode)} :
        /\ last' = g
        /\ files' = WorkDir(files, step, g)
        /\ UNCHANGED <<step, calls>>

Init ==
    /\ step = [core |-> "ocean", work_dir |-> "work"]
    /\ calls = <<>>
    /\ files = <<>>
    /\ last = NotCalled

Next ==
    \/ \E streams \in StreamsFiles, o \in OutNames :
          \E r \in Replacements(streams) : add_streams_file(streams, r, o)
    \/ \E o \in OutNames, mode \in Modes : generate_streams(o, mode)

Spec == Init /\ [][Next]_vars
-----------------------------------------------------------------------------
(* What the properties below speak of *)

\* the names of the elements of a child list that have one
Names(elements) ==
    {NameOf(elements[i]) : i \in {j \in DOMAIN elements : HasName(elements[j])}}

\* the elements of a child list with the given name
Named(elements, name) ==
    LET Is(e) == HasName(e) /\ NameOf(e) = name IN SelectSeq(elements, Is)

RECURSIVE Structure(_)
\* an element without the identities: tag, attributes and children only
Structure(e) ==
    [e EXCEPT !.id = <<>>,
              !.children = [i \in DOMAIN e.children |-> Structure(e.children[i])]]

Structures(elements) == [i \in DOMAIN elements |-> Structure(elements[i])]

RECURSIVE Ids(_)
\* the element objects of a tree
Ids(e) == {e.id} \cup UNION {Ids(e.children[i]) : i \in DOMAIN e.children}

RECURSIVE AllNamed(_)
\* every element below the root of a tree has a name
AllNamed(elements) ==
    \A i \in DOMAIN elements :
        HasName(elements[i]) /\ AllNamed(elements[i].children)

\* the last call of generate_streams got as far as the accumulated tree,
\* and as far as the pruned defaults
Unified == last.tree # <<>>
Pruned == last.defaults # <<>>

\* the top-level elements of the requested tree, of the defaults as parsed,
\* and of the final document
RequestedStreams == last.tree[1].children
DefaultStreams == Identify(DefaultsFile(last.mode), <<0>>).children
FinalStreams == last.defaults[1].children

\* the k-th streams file the last call read, as parsed
Fragment(k) == fromstring(last.entries[k], k)

-----------------------------------------------------------------------------
\* C1: after reconciliation and pruning the names of the top-level elements
\* of the final document are exactly the names of the top-level elements of
\* the requested tree.
C1_FinalNamesAreRequestedNames ==
    Pruned => Names(FinalStreams) = Names(RequestedStreams)

\* a final document for which two adjacent defaults were not requested, one
\* requested name matched a default and one did not
C1_Witness ==
    /\ Pruned
    /\ \E i \in 1 .. Len(DefaultStreams) - 1 :
          /\ NameOf(DefaultStreams[i]) \notin Names(RequestedStreams)
          /\ NameOf(DefaultStreams[i + 1]) \notin Names(RequestedStreams)
    /\ Names(RequestedStreams) \cap Names(DefaultStreams) # {}
    /\ Names(RequestedStreams) \ Names(DefaultStreams) # {}

\* a requested top-level element and a default with the same name and tag
Matching(i, j) ==
    /\ HasName(RequestedStreams[i])
    /\ NameOf(RequestedStreams[i]) = NameOf(DefaultStreams[j])
    /\ RequestedStreams[i].tag = DefaultStreams[j].tag

\* the children of an element that have a name
NamedChildren(e) == SelectSeq(e.children, HasName)

C5_NamelessIgnored ==
    last.called =>
      /\ ~(last.err = KeyError /\ last.name = "name")
      /\ Unified => AllNamed(RequestedStreams)
      /\ Pruned => AllNamed(FinalStreams)

-----------------------------------------------------------------------------
Keys(attrib) == {attrib[i][1] : i \in DOMAIN attrib}

Max(S) == CHOOSE n \in S : \A m \in S : m <= n

\* the value of an attribute in the last of the elements that sets it
LastValue(elements, key) ==
    GetAttr(elements[Max({k \in DOMAIN elements :
                             HasAttr(elements[k].attrib, key)})].attrib, key)

RECURSIVE Corresponding(_, _, _)
\* the children with the given name of a sequence of elements, in order
Corresponding(elements, k, name) ==
    IF k > Len(elements) THEN <<>>
    ELSE Named(elements[k].children, name)
           \o Corresponding(elements, k + 1, name)

RECURSIVE Merged(_, _)
\* `element` is what the elements `parts`, which the fragments in
\* registration order give for one place, add up to: every attribute has the
\* value of the last part that sets it, and the named children are those of
\* all parts, each merged in the same way
Merged(element, parts) ==
    /\ Keys(element.attrib) = UNION {Keys(parts[k].attrib) : k \in DOMAIN parts}
    /\ \A key \in Keys(element.attrib) :
          GetAttr(element.attrib, key) = LastValue(parts, key)
    /\ Names(element.children)
         = UNION {Names(parts[k].children) : k \in DOMAIN parts}
    /\ \A i \in DOMAIN element.children :
          HasName(element.children[i])
          => Merged(element.children[i],
                    Corresponding(parts, 1, NameOf(element.children[i])))

Fragments == [k \in DOMAIN last.entries |-> Fragment(k)]

\* C3: in the accumulated tree every attribute of a named element has the
\* value of the last fragment that sets it, and its children are the union
\* by name of the children the fragments give it, merged by the same rule.
C3_LastAttributeWinsChildrenUnite ==
    Unified
    => /\ Names(RequestedStreams)
            = UNION {Names(Fragments[k].children) : k \in DOMAIN Fragments}
       /\ \A i \in DOMAIN RequestedStreams :
             HasName(RequestedStreams[i])
             => Merged(RequestedStreams[i],
                       Corresponding(Fragments, 1,
                                     NameOf(RequestedStreams[i])))

\* two fragments give one element different values of one attribute,
\* different children, and the earlier one an attribute the later one lacks
C3_Witness ==
    /\ Unified
    /\ \E i \in DOMAIN RequestedStreams :
          /\ HasName(RequestedStreams[i])
          /\ LET parts == Corresponding(Fragments, 1,
                                         NameOf(RequestedStreams[i]))
             IN  /\ Len(parts) >= 2
                 /\ parts[1].tag = parts[2].tag
                 /\ \E key \in Keys(parts[1].attrib) \cap Keys(parts[2].attrib) :
                       GetAttr(parts[1].attrib, key)
                         # GetAttr(parts[2].attrib, key)
                 /\ Keys(parts[1].attrib) \ Keys(parts[2].attrib) # {}
                 /\ Names(parts[1].children) \ Names(parts[2].children) # {}
                 /\ Names(parts[2].children) \ Names(parts[1].children) # {}
                 /\ Names(parts[1].children) \cap Names(parts[2].children) # {}

-----------------------------------------------------------------------------
RECURSIVE Conflict(_, _)
\* an incoming element has the name of an existing sibling under the matched
\* parent, at any depth, but another tag
Conflict(new_children, elements) ==
    \E i \in DOMAIN new_children, j \in DOMAIN elements :
        /\ HasName(new_children[i])
        /\ HasName(elements[j])
        /\ NameOf(new_children[i]) = NameOf(elements[j])
        /\ \/ new_children[i].tag # elements[j].tag
           \/ Conflict(new_children[i].children, elements[j].children)

\* the tree accumulated from the first k entries
Accumulated(k) == ReadAll(SubSeq(last.entries, 1, k), 1, <<>>)

UnifyConflict ==
    \E k \in 2 .. Len(last.entries) :
        /\ Accumulated(k - 1).err = ""
        /\ Conflict(Fragment(k).children, Accumulated(k - 1).v[1].children)

ReconcileConflict ==
    /\ Unified
    /\ \E i \in DOMAIN RequestedStreams, j \in DOMAIN DefaultStreams :
          /\ HasName(RequestedStreams[i])
          /\ NameOf(RequestedStreams[i]) = NameOf(DefaultStreams[j])
          /\ RequestedStreams[i].tag # DefaultStreams[j].tag

\* C4: whenever an incoming element has the name of an existing sibling but
\* another tag, in unification or in reconciliation, the generation fails
\* with the 'inconsistent tags' error.
C4_ConflictRaisesInconsistentTags ==
    (last.called /\ (UnifyConflict \/ ReconcileConflict))
    => last.err = InconsistentTags

-----------------------------------------------------------------------------
\* C6 (as claimed): the accumulated tree shares no element with any fragment
\* tree, and the final document none with the requested tree.
C6_NoSharedElements ==
    /\ Unified => \A k \in DOMAIN last.entries :
                     Ids(last.tree[1]) \cap Ids(Fragment(k)) = {}
    /\ Pruned => Ids(last.defaults[1]) \cap Ids(last.tree[1]) = {}

\* C6 (amended): the first fragment tree is adopted as the accumulated tree
\* itself; the accumulated tree shares no element with any later fragment
\* tree, and the final document none with the requested tree.
C6_OnlyFirstFragmentAdopted ==
    /\ Unified => /\ last.tree[1].id = Fragment(1).id
                  /\ Len(last.entries) = 1 => last.tree[1] = Fragment(1)
                  /\ \A k \in 2 .. Len(last.entries) :
                        Ids(last.tree[1]) \cap Ids(Fragment(k)) = {}
    /\ Pruned => Ids(last.defaults[1]) \cap Ids(last.tree[1]) = {}

\* an element of a later fragment was added to the accumulated tree, and an
\* element of the requested tree to the defaults
C6_Witness ==
    /\ Pruned
    /\ \E id \in Ids(last.tree[1]) : id[1] >= 2 /\ id[Len(id)] = 0
    /\ \E id \in Ids(last.defaults[1]) : id[1] >= 1 /\ id[Len(id)] = 0

-----------------------------------------------------------------------------
RECURSIVE Emitted(_, _)
\* the entries written from position i up to the next '</stream>'
Emitted(lines, i) ==
    IF i > Len(lines) \/ lines[i] = <<"</stream>\n">>
    THEN <<>>
    ELSE <<Tail(lines[i])>> \o Emitted(lines, i + 1)

\* the entries written between '>' and '</stream>' of the stream `name`
EmittedInside(lines, name) ==
    LET open == CHOOSE i \in DOMAIN lines :
                    lines[i] = <<"<stream name=\"{}\"", name>>
        close == CHOOSE i \in DOMAIN lines :
                    /\ i > open
                    /\ lines[i] = <<">\n\n">>
                    /\ \A j \in open + 1 .. i - 1 : lines[j] # <<">\n\n">>
    IN  Emitted(lines, close + 1)

\* the children of a stream of one kind, a reference to the stream itself
\* left out, each as <<kind, name>> or <<kind, name, packages>>
Content(stream, tag) ==
    LET Wanted(c) == /\ c.tag = tag
                     /\ ~(tag = "stream" /\ NameOf(c) = NameOf(stream))
        children == SelectSeq(stream.children, Wanted)
    IN  [i \in DOMAIN children |->
           IF HasAttr(children[i].attrib, "packages")
           THEN <<tag, NameOf(children[i]),
                  GetAttr(children[i].attrib, "packages")>>
           ELSE <<tag, NameOf(children[i])>>]

\* C7: inside every mutable stream written, the children are the stream
\* references (but not one to the stream itself), then the var_structs, the
\* var_arrays and the vars, each kind in document order, each with its name
\* and, if it has one, its packages attribute.
C7_ChildrenByKind ==
    (last.wrote /\ last.err = "")
    => \A i \in DOMAIN FinalStreams :
          FinalStreams[i].tag = "stream"
          => EmittedInside(last.lines, NameOf(FinalStreams[i]))
               = Content(FinalStreams[i], "stream")
                   \o Content(FinalStreams[i], "var_struct")
                   \o Content(FinalStreams[i], "var_array")
                   \o Content(FinalStreams[i], "var")

\* a stream written that refers to itself, has a var before a var_array and
\* a child with packages
C7_Witness ==
    /\ last.wrote /\ last.err = ""
    /\ \E i \in DOMAIN FinalStreams :
          LET children == FinalStreams[i].children
          IN  /\ FinalStreams[i].tag = "stream"
              /\ \E c \in DOMAIN children :
                    /\ children[c].tag = "stream"
                    /\ NameOf(children[c]) = NameOf(FinalStreams[i])
              /\ \E c, d \in DOMAIN children :
                    /\ c < d
                    /\ children[c].tag = "var"
                    /\ children[d].tag = "var_array"
              /\ \E c \in DOMAIN children :
                    HasAttr(children[c].attrib, "packages")

-----------------------------------------------------------------------------
RECURSIVE EntriesFor(_, _, _)
\* the entries of the calls made for one target, in call order
EntriesFor(cs, k, out_name) ==
    IF k > Len(cs) THEN <<>>
    ELSE (IF OutName(step, cs[k].out_name) = out_name
          THEN <<[package |-> Package, streams |-> cs[k].streams,
                  replacements |-> cs[k].replacements]>>
          ELSE <<>>)
         \o EntriesFor(cs, k + 1, out_name)

Targets(cs) == {OutName(step, cs[k].out_name) : k \in DOMAIN cs}

StreamsData(s) == IF "streams_data" \in DOMAIN s THEN s.streams_data ELSE <<>>

IsPrefix(s, t) == Len(s) <= Len(t) /\ SubSeq(t, 1, Len(s)) = s

\* C8: the sources registered for a target are the calls made for it, in
\* call order; a call changes no earlier entry and no other target's list;
\* and generate_streams merges exactly the target's sources in that order.
C8_RegistrationIsAppendOnly ==
    /\ [](/\ DOMAIN StreamsData(step) = Targets(calls)
          /\ \A o \in Targets(calls) :
                StreamsData(step)[o] = EntriesFor(calls, 1, o))
    /\ [][/\ \A o \in DOMAIN StreamsData(step) :
                /\ o \in DOMAIN StreamsData(step')
                /\ IsPrefix(StreamsData(step)[o], StreamsData(step')[o])
          /\ Len(calls') > Len(calls)
             => \A o \in DOMAIN StreamsData(step) :
                   o # OutName(step, calls'[Len(calls')].out_name)
                   => StreamsData(step')[o] = StreamsData(step)[o]
          /\ (last' # last /\ last'.tree # <<>>)
             => /\ last'.entries = EntriesFor(calls, 1, last'.out_name)
                /\ last'.tree
                     = ReadAll(EntriesFor(calls, 1, last'.out_name), 1, <<>>).v
         ]_vars

\* two different files registered for the default target and merged
C8_Witness ==
    /\ Len(calls) = 2
    /\ calls[1].out_name = None
    /\ calls[2].out_name = None
    /\ last.out_name = DefaultOutName(step.core)
    /\ calls[1].streams # calls[2].streams
    /\ Unified
    /\ Len(last.entries) = 2

-----------------------------------------------------------------------------
\* C9: a call of generate_streams that fails before _write leaves the files
\* of the work directory and the registered sources as they were.
C9_FailureLeavesNoOutput ==
    [][(calls' = calls /\ last'.called /\ last'.err # "" /\ ~last'.wrote)
       => (files' = files /\ step' = step)]_vars

\* the generation for a target failed on inconsistent tags after an earlier
\* one had written the target's file
C9_Witness ==
    /\ last.err = InconsistentTags
    /\ ~last.wrote
    /\ (step.work_dir \o "/" \o last.out_name) \in DOMAIN files

-----------------------------------------------------------------------------
RECURSIVE UniqueNames(_)
\* no two siblings share a name, at any depth
UniqueNames(elements) ==
    /\ \A i, j \in DOMAIN elements :
          (i # j /\ HasName(elements[i]) /\ HasName(elements[j]))
          => NameOf(elements[i]) # NameOf(elements[j])
    /\ \A i \in DOMAIN elements : UniqueNames(elements[i].children)

RECURSIVE Elements(_)
Elements(e) == {e} \cup UNION {Elements(e.children[i]) : i \in DOMAIN e.children}

RECURSIVE At(_, _)
At(e, path) ==
    IF path = <<>> THEN e ELSE At(e.children[Head(path)], Tail(path))

RECURSIVE Original(_)
\* the parsed element an element is, or is a copy of
Original(id) ==
    IF id[Len(id)] = 0 /\ Len(id) > 1
    THEN Original(SubSeq(id, 1, Len(id) - 1))
    ELSE At(IF id[1] = 0 THEN Identify(DefaultsFile(last.mode), <<0>>)
            ELSE Fragment(id[1]),
            Tail(id))

\* the element has the tag and the name it was parsed with
Stable(e) ==
    /\ e.tag = Original(e.id).tag
    /\ HasName(e) = HasName(Original(e.id))
    /\ HasName(e) => NameOf(e) = NameOf(Original(e.id))

\* C10: when the siblings of every fragment and of the defaults have
\* different names, so have the siblings of the accumulated tree and of the
\* final document, and every element keeps its name and its tag.
C10_SiblingNamesStayUnique ==
    ( /\ \A k \in DOMAIN last.entries : UniqueNames(Fragment(k).children)
      /\ UniqueNames(DefaultStreams) )
    => /\ Unified => /\ UniqueNames(RequestedStreams)
                     /\ \A e \in Elements(last.tree[1]) : Stable(e)
       /\ Pruned => /\ UniqueNames(FinalStreams)
                    /\ \A e \in Elements(last.defaults[1]) : Stable(e)

\* two fragments were merged into one element, and a requested element into
\* a default
C10_Witness ==
    /\ Pruned
    /\ \E i \in DOMAIN RequestedStreams :
          /\ HasName(RequestedStreams[i])
          /\ Len(Corresponding(Fragments, 1, NameOf(RequestedStreams[i]))) >= 2
          /\ NameOf(RequestedStreams[i]) \in Names(DefaultStreams)

====
